---- MODULE Spec2Model ----
(***************************************************************************)
(* Model of ConditionParser (src/unnamed/part_003): the cursor-driven      *)
(* recursive-descent parser of "key:op:value and (a:b or c:d) free text".  *)
(*                                                                         *)
(* A string is a sequence of one-character strings.  Cursor positions are  *)
(* 0-based as in the source, so the character at position p is s[p + 1].   *)
(* An optional field (expression / condition of a node) is a sequence of   *)
(* length 0 (undefined) or 1 (defined).                                    *)
(***************************************************************************)
EXTENDS Integers, Sequences, FiniteSets, TLC

VARIABLES input, options, DEFAULT_OPERATOR, pc, result, errorArgs, error, literal

vars == <<input, options, DEFAULT_OPERATOR, pc, result, errorArgs, error, literal>>

----------------------------------------------------------------------------
(* Bounds of the model *)

MaxParts == 3

MaxJoinParts == 5

MaxWords == 3

MaxTerms == 3

MaxErrorLen == 4

MaxRadius == 2

MaxLiteralLen == 4

----------------------------------------------------------------------------
(* Generic helpers *)

Range(f) == {f[i] : i \in DOMAIN f}

Slice(s, from) == SubSeq(s, from + 1, Len(s))

Whitespace == {" ", "\t", "\n"}

IsWs(c) == c \in Whitespace

Lower(c) ==
    CASE c = "A" -> "a" [] c = "N" -> "n" [] c = "D" -> "d"
      [] c = "O" -> "o" [] c = "R" -> "r" [] c = "T" -> "t"
      [] OTHER -> c

RECURSIVE TrimLeft(_)
TrimLeft(s) == IF s # <<>> /\ IsWs(Head(s)) THEN TrimLeft(Tail(s)) ELSE s

RECURSIVE TrimRight(_)
TrimRight(s) ==
    IF s # <<>> /\ IsWs(s[Len(s)]) THEN TrimRight(SubSeq(s, 1, Len(s) - 1)) ELSE s

(* a trim that forgets the trailing whitespace *)
Trim_LeftOnly(s) == TrimLeft(s)

Trim(s) == TrimRight(TrimLeft(s))

----------------------------------------------------------------------------
(* Cursor primitives *)

Peek(s, at) ==
    IF at < Len(s) THEN (IF at >= 0 THEN s[at + 1] ELSE "undefined") ELSE ""

IsEOF(s, pos) == pos >= Len(s)

RECURSIVE ConsumeWhitespace(_, _)
ConsumeWhitespace(s, pos) ==
    IF pos < Len(s) /\ IsWs(Peek(s, pos)) THEN ConsumeWhitespace(s, pos + 1) ELSE pos

IsQuoteAhead(s, pos) == Peek(s, pos) \in {"'", "\""}

IsOpeningParenthesisAhead(s, pos) == Peek(s, pos) = "("

(* next = consume(); while (next === char) { count++; consumeWhitespace();
   next = consume() }; the cursor is restored by the caller side *)
RECURSIVE CountSameCharsAhead(_, _, _)
CountSameCharsAhead(s, pos, char) ==
    IF pos < Len(s) /\ s[pos + 1] = char
    THEN 1 + CountSameCharsAhead(s, ConsumeWhitespace(s, pos + 1), char)
    ELSE 0

----------------------------------------------------------------------------
(* Lexical layer.  Each lexer returns [pos, val, err].                     *)

Lexed(pos, val, err) == [pos |-> pos, val |-> val, err |-> err]

(* a scan that ends at the first closing character, escaped or not *)
RECURSIVE ScanUntil_NoEscape(_, _, _, _, _)
ScanUntil_NoEscape(s, pos, closing, acc, failure) ==
    IF pos < Len(s)
    THEN IF s[pos + 1] = closing
         THEN Lexed(pos + 1, acc, "none")
         ELSE ScanUntil_NoEscape(s, pos + 1, closing, Append(acc, s[pos + 1]), failure)
    ELSE Lexed(pos, acc, failure)

(* the scan loop of the quoted and of the parenthesized lexer; pos is the
   cursor before const char = this.#consume() *)
RECURSIVE ScanUntil(_, _, _, _, _)
ScanUntil(s, pos, closing, acc, failure) ==
    IF pos < Len(s)
    THEN IF s[pos + 1] = closing /\ Peek(s, pos - 1) # "\\"
         THEN Lexed(pos + 1, acc, "none")
         ELSE IF s[pos + 1] = "\\" /\ Peek(s, pos + 1) = closing
              THEN ScanUntil(s, pos + 2, closing, Append(acc, closing), failure)
              ELSE ScanUntil(s, pos + 1, closing, Append(acc, s[pos + 1]), failure)
    ELSE Lexed(pos, acc, failure)

(* a parenthesized lexer that ends at the first ')', escaped or not *)
parseParenthesizedValue_FirstParen(s, pos) ==
    IF Peek(s, pos) # "("
    THEN Lexed(pos, <<>>, "NotParenthesized")
    ELSE ScanUntil_NoEscape(s, pos + 1, ")", <<>>, "UnterminatedParenValue")

parseParenthesizedValue(s, pos) ==
    IF Peek(s, pos) # "("
    THEN Lexed(pos, <<>>, "NotParenthesized")
    ELSE ScanUntil(s, pos + 1, ")", <<>>, "UnterminatedParenValue")

parseQuotedString(s, pos) ==
    IF ~IsQuoteAhead(s, pos)
    THEN Lexed(pos, <<>>, "NotQuoted")
    ELSE ScanUntil(s, pos + 1, s[pos + 1], <<>>, "UnterminatedQuote")

IsDelimiterAhead(s, pos) ==
    \/ (Peek(s, pos) = ":" /\ Peek(s, pos - 1) # "\\")
    \/ Peek(s, pos) = "("
    \/ Peek(s, pos) = ")"
    \/ IsWs(Peek(s, pos))

(* a scan that takes backslash-colon as two ordinary characters *)
RECURSIVE ScanUnquoted_NoEscape(_, _, _)
ScanUnquoted_NoEscape(s, pos, acc) ==
    IF pos < Len(s) /\ ~IsDelimiterAhead(s, pos)
    THEN ScanUnquoted_NoEscape(s, pos + 1, Append(acc, Peek(s, pos)))
    ELSE Lexed(pos, Trim(acc), "none")

RECURSIVE ScanUnquoted(_, _, _)
ScanUnquoted(s, pos, acc) ==
    IF pos < Len(s) /\ ~IsDelimiterAhead(s, pos)
    THEN IF Peek(s, pos) = "\\" /\ Peek(s, pos + 1) = ":"
         THEN ScanUnquoted(s, pos + 2, Append(acc, ":"))
         ELSE ScanUnquoted(s, pos + 1, Append(acc, Peek(s, pos)))
    ELSE Lexed(pos, Trim(acc), "none")

parseUnquotedString(s, pos) == ScanUnquoted(s, pos, <<>>)

----------------------------------------------------------------------------
(* The diagnostic helper, static __createError(input, pos, message,        *)
(* contextRadius = 20).  It returns [thrown, message]: thrown is "none"    *)
(* and message the text of the Error, or thrown is the failure the helper  *)
(* itself raised.                                                          *)

DefaultContextRadius == 20

Max2(a, b) == IF a >= b THEN a ELSE b

Min2(a, b) == IF a <= b THEN a ELSE b

(* a relative index of String.prototype.slice: negative counts from the end *)
SliceIndex(len, k) == IF k < 0 THEN Max2(len + k, 0) ELSE Min2(k, len)

(* String.prototype.slice(start, end) *)
JsSlice(s, start, end) ==
    SubSeq(s, SliceIndex(Len(s), start) + 1, SliceIndex(Len(s), end))

DigitChars == <<"0", "1", "2", "3", "4", "5", "6", "7", "8", "9">>

(* `${pos}` of an integer *)
RECURSIVE Decimal(_)
Decimal(n) ==
    IF n < 0 THEN <<"-">> \o Decimal(0 - n)
    ELSE IF n < 10 THEN <<DigitChars[n + 1]>>
    ELSE Decimal(n \div 10) \o <<DigitChars[(n % 10) + 1]>>

(* " ".repeat(n) for n >= 0 *)
Repeat(c, n) == [i \in 1..n |-> c]

PositionLabel == <<"P", "o", "s", "i", "t", "i", "o", "n", ":", " ">>

ContextLabel == <<"C", "o", "n", "t", "e", "x", "t", ":", " ", "\"">>

MarkerIndent == <<" ", " ", " ", " ", " ", " ", " ", " ", " ">>

(* lines 246-252: the four lines joined by "\n" *)
ErrorMessage(message, pos, snippet, markerPos) ==
    message \o <<"\n">>
        \o PositionLabel \o Decimal(pos) \o <<"\n">>
        \o ContextLabel \o snippet \o <<"\"", "\n">>
        \o MarkerIndent \o Repeat(" ", markerPos) \o <<"^">>

(* String.prototype.repeat throws a RangeError for a negative count *)
ErrorWithMarker(message, pos, snippet, markerPos) ==
    IF markerPos < 0
    THEN [thrown |-> "RangeError", message |-> <<>>]
    ELSE [thrown |-> "none", message |-> ErrorMessage(message, pos, snippet, markerPos)]

(* lines 244-245: snippet and markerPos *)
ErrorBetween(inp, pos, message, start, end) ==
    ErrorWithMarker(message, pos, JsSlice(inp, start, end), pos - start)

__createError(inp, pos, message, contextRadius) ==
    ErrorBetween(inp, pos, message,
                 Max2(0, pos - contextRadius),
                 Min2(Len(inp), pos + contextRadius))

---------------------------------------------------------------------------------------------------------------------------------------------------
(* Join-operator parser *)

Undefined == <<>>

Some(x) == <<x>>

(* /^and /i and /^or /i: the keyword in any case, then one literal space *)
StartsWithKeyword(rem, kw) ==
    /\ Len(rem) >= Len(kw) + 1
    /\ \A i \in 1..Len(kw) : Lower(rem[i]) = kw[i]
    /\ rem[Len(kw) + 1] = " "

RECURSIVE SkipWs(_, _)
SkipWs(rem, i) == IF i <= Len(rem) /\ IsWs(rem[i]) THEN SkipWs(rem, i + 1) ELSE i

(* "not" in any case and one whitespace character at the 1-based index j *)
NotWordAt(rem, j) ==
    /\ j + 3 <= Len(rem)
    /\ Lower(rem[j]) = "n" /\ Lower(rem[j + 1]) = "o" /\ Lower(rem[j + 2]) = "t"
    /\ IsWs(rem[j + 3])

(* /\s*not\s+/i tried at the 1-based index i of rem: length of the match, 0
   when there is none *)
NotMatchLenAt(rem, i) ==
    IF NotWordAt(rem, SkipWs(rem, i))
    THEN SkipWs(rem, SkipWs(rem, i) + 3) - i
    ELSE 0

Min(S) == CHOOSE i \in S : \A k \in S : i <= k

(* _isNotAhead = (s) => /\s*not\s+/i.exec(s): the regular expression has no
   anchor, so exec returns the leftmost match anywhere in s; the result is the
   length of that match, 0 when there is none *)
IsNotAhead(rem) ==
    IF \E i \in 1..Len(rem) : NotMatchLenAt(rem, i) > 0
    THEN NotMatchLenAt(rem, Min({i \in 1..Len(rem) : NotMatchLenAt(rem, i) > 0}))
    ELSE 0

Joined(pos, op, err) == [pos |-> pos, op |-> op, err |-> err]

(* a keyword skip two characters too long *)
KeywordJoin_SkipsTwoMore(pos, keywordLen, plain, negated, notLen) ==
    IF notLen > 0
    THEN Joined(pos + keywordLen + 1 + notLen + 1, negated, "none")
    ELSE Joined(pos + keywordLen + 1 + 2, plain, "none")

(* lines 400-421: a matched keyword, then the look for "not" *)
KeywordJoin(pos, keywordLen, plain, negated, notLen) ==
    IF notLen > 0
    THEN Joined(pos + keywordLen + 1 + notLen - 1, negated, "none")
    ELSE Joined(pos + keywordLen + 1, plain, "none")

JoinAt(s, pos, openingParenthesesLevel, remaining) ==
    IF StartsWithKeyword(remaining, <<"a", "n", "d">>)
    THEN KeywordJoin(pos, 3, "and", "andNot", IsNotAhead(remaining))
    ELSE IF StartsWithKeyword(remaining, <<"o", "r">>)
    THEN KeywordJoin(pos, 2, "or", "orNot", IsNotAhead(remaining))
    ELSE IF openingParenthesesLevel # Undefined
            /\ openingParenthesesLevel[1] # CountSameCharsAhead(s, pos, ")")
    THEN Joined(pos, "null", "ParenLevelMismatch")
    ELSE Joined(pos, "null", "none")

JoinAfterWhitespace(s, pos, openingParenthesesLevel) ==
    JoinAt(s, pos, openingParenthesesLevel, Slice(s, pos))

parseConditionOperator(s, pos, openingParenthesesLevel) ==
    JoinAfterWhitespace(s, ConsumeWhitespace(s, pos), openingParenthesesLevel)

----------------------------------------------------------------------------
(* Tree nodes and metadata accumulators *)

Expression(key, operator, value) ==
    [key |-> key, operator |-> operator, value |-> value]

(* a leaf pushed with an empty condition list beside its expression *)
LeafNode_EmptyCondition(expression, operator) ==
    [expression |-> Some(expression), operator |-> operator, condition |-> Some(<<>>)]

LeafNode(expression, operator) ==
    [expression |-> Some(expression), operator |-> operator, condition |-> Undefined]

GroupNode(condition, operator) ==
    [condition |-> Some(condition), operator |-> operator, expression |-> Undefined]

(* an accumulator that appends without looking for the element *)
SetAdd_NoDedupe(set, x) == Append(set, x)

(* Set.prototype.add on an insertion-ordered Set *)
SetAdd(set, x) == IF x \in Range(set) THEN set ELSE Append(set, x)

(* JSON.stringify([key, operator, value]) and its JSON.parse *)
Stringify(e) == <<"[", e.key, ",", e.operator, ",", e.value, "]">>

Destringify(j) == Expression(j[2], j[4], j[6])

EmptyMeta == [keys |-> <<>>, operators |-> <<>>, values |-> <<>>, expressions |-> <<>>]

MetaAdd(meta, e) ==
    [keys        |-> SetAdd(meta.keys, e.key),
     operators   |-> SetAdd(meta.operators, e.operator),
     values      |-> SetAdd(meta.values, e.value),
     expressions |-> SetAdd(meta.expressions, Stringify(e))]

SetLastOperator(out, op) == [out EXCEPT ![Len(out)].operator = op]

----------------------------------------------------------------------------
(* Callbacks of the options: each kind stands for one caller-supplied       *)
(* function.  A callback returns Some(expression), or Undefined (null).     *)

TransformKinds ==
    {"identity", "lowerKey", "returnsUndefined", "throws", "throwsOnKeyB", "reenters"}

HookKinds == {"absent", "acceptAll", "onlyKeyA", "rejectAll", "throws", "throwsOnKeyB"}

(* the callback of this kind throws when called with ctx *)
Throws(kind, ctx) ==
    \/ kind = "throws"
    \/ kind = "throwsOnKeyB" /\ ctx.key = <<"b">>

ApplyTransform(kind, ctx) ==
    CASE kind = "identity"         -> Some(ctx)
      [] kind = "lowerKey"         ->
            Some([ctx EXCEPT !.key = [i \in DOMAIN ctx.key |-> Lower(ctx.key[i])]])
      [] kind = "returnsUndefined" -> Undefined
      [] kind = "throwsOnKeyB"     -> Some(ctx)
      [] kind = "reenters"         -> Some(ctx)
      [] OTHER                     -> Undefined

ApplyPreAddHook(kind, ctx) ==
    CASE kind = "absent"    -> Some(ctx)
      [] kind = "acceptAll" -> Some(ctx)
      [] kind = "onlyKeyA"  -> IF ctx.key = <<"a">> THEN Some(ctx) ELSE Undefined
      [] kind = "rejectAll" -> Undefined
      [] kind = "throwsOnKeyB" -> Some(ctx)
      [] OTHER              -> Undefined

(* a ?? b, and the if (!expression) replacement *)
OrElse(optional, fallback) == IF optional = Undefined THEN fallback ELSE optional[1]

----------------------------------------------------------------------------
(* Grammar layer.  p is the parser instance: its fields pos, depth and     *)
(* meta, and a history of the call:                                         *)
(*   joins    the join keywords recognized: where the keyword began, where  *)
(*            the cursor was left and the operator returned;                *)
(*   edges    the operators the loop of #parseCondition went on with,       *)
(*            keyword or implicit and, in the order of the input;           *)
(*   rule     where the rule at work began: the _startPos of the basic      *)
(*            expression being parsed or of the group whose closing         *)
(*            parenthesis is looked for;                                    *)
(*   pending  per try block of #parseCondition not yet left, outermost      *)
(*            first: the depth of its sequence, the index of the node whose *)
(*            operator was edited before it and the _previousBkp saved;     *)
(*   terms    per term parsed without failure, where it began and where it  *)
(*            left the cursor;                                              *)
(*   lo, hi   the least and the greatest value this.#pos was given;         *)
(*   active   the greatest number of #parseCondition invocations that were  *)
(*            active at once;                                               *)
(*   nested   what the parse calls made from inside a callback returned.    *)
(* out is the sequence being filled; every routine returns [p, out, err],   *)
(* err being "none" or the failure thrown.  A routine is a chain of         *)
(* definitions, one per stretch of its code, each handing what it computed  *)
(* to the next.                                                             *)

Ret(p, out, err) == [p |-> p, out |-> out, err |-> err]

(* this.#pos was pos at some step *)
Seen(p, pos) == [p EXCEPT !.lo = Min2(@, pos), !.hi = Max2(@, pos)]

At(p, pos) == [Seen(p, pos) EXCEPT !.pos = pos]

LexLiteral(s, pos, allowParenthesized) ==
    IF allowParenthesized /\ IsOpeningParenthesisAhead(s, pos)
    THEN parseParenthesizedValue(s, pos)
    ELSE IF IsQuoteAhead(s, pos)
    THEN parseQuotedString(s, pos)
    ELSE parseUnquotedString(s, pos)

(* lines 519-535: record in meta, push *)
PushExpression(p, out, currentOperator, expression) ==
    Ret([p EXCEPT !.meta = MetaAdd(p.meta, expression)],
        Append(out, LeafNode(expression, currentOperator)),
        "none")

(* a hook step that drops the leaf when the hook returns a falsy value *)
HookExpression_DropsRejected(cfg, p, out, currentOperator, candidate) ==
    IF Throws(cfg.preAddHook, candidate)
    THEN Ret(p, out, "CallbackThrew")
    ELSE IF ApplyPreAddHook(cfg.preAddHook, candidate) = Undefined
    THEN Ret(p, out, "none")
    ELSE PushExpression(p, out, currentOperator,
                        ApplyPreAddHook(cfg.preAddHook, candidate)[1])

(* lines 510-517: preAddHook, placeholder when it returns a falsy value *)
HookExpression(cfg, p, out, currentOperator, candidate) ==
    IF Throws(cfg.preAddHook, candidate)
    THEN Ret(p, out, "CallbackThrew")
    ELSE PushExpression(p, out, currentOperator,
                        OrElse(ApplyPreAddHook(cfg.preAddHook, candidate),
                               Expression(<<"1">>, cfg.defaultOperator, <<"1">>)))

(* a leaf recorded in meta before the transform is called *)
AddExpression_RecordsFirst(cfg, p, out, currentOperator, raw) ==
    IF Throws(cfg.transform, raw)
    THEN Ret([p EXCEPT !.meta = MetaAdd(p.meta, raw)], out, "CallbackThrew")
    ELSE HookExpression(cfg, [p EXCEPT !.meta = MetaAdd(p.meta, raw)], out,
                        currentOperator,
                        OrElse(ApplyTransform(cfg.transform, raw), raw))

(* a transform of kind "reenters" calls ConditionParser.parse itself, on
   InnerInput with InnerOptions, before it returns its argument *)
RECURSIVE Reenter(_, _)

Called(cfg, p) == IF cfg.transform = "reenters" THEN Reenter(cfg, p) ELSE p

(* lines 500-508: transform ?? the raw expression *)
AddExpression(cfg, p, out, currentOperator, raw) ==
    IF Throws(cfg.transform, raw)
    THEN Ret(p, out, "CallbackThrew")
    ELSE HookExpression(cfg, Called(cfg, p), out, currentOperator,
                        OrElse(ApplyTransform(cfg.transform, raw), raw))

(* lines 488-498: the value after the second colon *)
BasicAfterSecond(cfg, p, out, currentOperator, key, first, second) ==
    IF second.err # "none"
    THEN Ret(At(p, second.pos), out, second.err)
    ELSE AddExpression(cfg, At(p, second.pos), out, currentOperator,
                       Expression(key.val, first.val, second.val))

(* a second-colon step that throws without this.#pos = _startPos *)
BasicSecondColon_NoRewind(s, cfg, p, out, currentOperator, key, wasParenthesized, first, afterFirst) ==
    IF Peek(s, afterFirst) # ":"
    THEN AddExpression(cfg, At(p, afterFirst), out, currentOperator,
                       Expression(key.val, cfg.defaultOperator, first.val))
    ELSE IF wasParenthesized
    THEN Ret(At(p, afterFirst), out, "ParenthesizedOperatorNotAllowed")
    ELSE BasicAfterSecond(cfg, p, out, currentOperator, key, first,
                          LexLiteral(s, ConsumeWhitespace(s, afterFirst + 1), TRUE))

(* lines 478-487: is there a second colon *)
BasicSecondColon(s, cfg, p, out, currentOperator, key, wasParenthesized, first, afterFirst) ==
    IF Peek(s, afterFirst) # ":"
    THEN AddExpression(cfg, At(p, afterFirst), out, currentOperator,
                       Expression(key.val, cfg.defaultOperator, first.val))
    ELSE IF wasParenthesized
    THEN Ret(Seen(p, afterFirst), out, "ParenthesizedOperatorNotAllowed")
    ELSE BasicAfterSecond(cfg, p, out, currentOperator, key, first,
                          LexLiteral(s, ConsumeWhitespace(s, afterFirst + 1), TRUE))

(* line 476 *)
BasicAfterFirst(s, cfg, p, out, currentOperator, key, wasParenthesized, first) ==
    IF first.err # "none"
    THEN Ret(At(p, first.pos), out, first.err)
    ELSE BasicSecondColon(s, cfg, p, out, currentOperator, key, wasParenthesized, first,
                          ConsumeWhitespace(s, first.pos))

(* lines 461-474: the literal after the first colon *)
BasicFirst(s, cfg, p, out, currentOperator, key, firstPos) ==
    BasicAfterFirst(s, cfg, p, out, currentOperator, key,
                    IsOpeningParenthesisAhead(s, firstPos),
                    LexLiteral(s, firstPos, TRUE))

(* a first colon that may be missing at the end of input or of a group *)
BasicColon_OptionalAtEnd(s, cfg, p, out, currentOperator, key, colonPos) ==
    IF Peek(s, colonPos) = ":"
    THEN BasicFirst(s, cfg, p, out, currentOperator, key,
                    ConsumeWhitespace(s, colonPos + 1))
    ELSE IF IsEOF(s, colonPos) \/ Peek(s, colonPos) = ")"
    THEN AddExpression(cfg, At(p, colonPos), out, currentOperator,
                       Expression(key.val, cfg.defaultOperator, <<>>))
    ELSE Ret(Seen(p, Min2(colonPos + 1, Len(s))), out, "ExpectedColon")

(* lines 453-459: the first colon; p.pos is still _startPos *)
BasicColon(s, cfg, p, out, currentOperator, key, colonPos) ==
    IF Peek(s, colonPos) # ":"
    THEN Ret(Seen(p, Min2(colonPos + 1, Len(s))), out, "ExpectedColon")
    ELSE BasicFirst(s, cfg, p, out, currentOperator, key,
                    ConsumeWhitespace(s, colonPos + 1))

BasicAfterKey(s, cfg, p, out, currentOperator, key) ==
    IF key.err # "none"
    THEN Ret(At(p, key.pos), out, key.err)
    ELSE BasicColon(s, cfg, p, out, currentOperator, key, ConsumeWhitespace(s, key.pos))

(* p.pos plays _startPos until a routine of the chain moves the cursor for
   good: the two rewinds, this.#pos = _startPos, return p.pos as it came and
   note how far the cursor had gone *)
parseBasicExpression(s, cfg, p, out, currentOperator) ==
    BasicAfterKey(s, cfg, [p EXCEPT !.rule = p.pos], out, currentOperator,
                  LexLiteral(s, p.pos, FALSE))

RECURSIVE parseCondition(_, _, _, _, _, _)
RECURSIVE ConditionLoop(_, _, _, _, _)

(* a group that throws without this.#pos = _startPos *)
GroupClose_NoRewind(s, startPos, p, out, endPos) ==
    IF Peek(s, endPos) # ")"
    THEN Ret(At(p, endPos), out, "ExpectedClosingParen")
    ELSE Ret(At(p, endPos + 1), out, "none")

(* lines 560-570: the closing parenthesis *)
GroupClose(s, startPos, p, out, endPos) ==
    IF Peek(s, endPos) # ")"
    THEN Ret(At(Seen(p, endPos), startPos), out, "ExpectedClosingParen")
    ELSE Ret(At(p, endPos + 1), out, "none")

(* the group node was pushed before the nested call and is filled in place,
   so it is in out whether the nested call returned or threw *)
GroupAfterInner(s, startPos, out, currentOperator, inner) ==
    IF inner.err # "none"
    THEN Ret(inner.p, Append(out, GroupNode(inner.out, currentOperator)), inner.err)
    ELSE GroupClose(s, startPos, [inner.p EXCEPT !.rule = startPos],
                    Append(out, GroupNode(inner.out, currentOperator)),
                    ConsumeWhitespace(s, inner.p.pos))

parseParenthesizedExpression(s, cfg, p, out, currentOperator) ==
    GroupAfterInner(s, p.pos, out, currentOperator,
                    parseCondition(s, cfg, At(p, ConsumeWhitespace(s, p.pos + 1)),
                                   <<>>, currentOperator, Undefined))

TermAt(s, cfg, p, out, currentOperator) ==
    IF Peek(s, p.pos) = "("
    THEN parseParenthesizedExpression(s, cfg, p, out, currentOperator)
    ELSE parseBasicExpression(s, cfg, p, out, currentOperator)

(* the term that returned is noted in p.terms *)
TermDone(from, term) ==
    IF term.err # "none"
    THEN term
    ELSE [term EXCEPT !.p.terms = Append(@, [from |-> from, to |-> term.p.pos])]

parseTerm(s, cfg, p, out, currentOperator) ==
    TermDone(ConsumeWhitespace(s, p.pos),
             TermAt(s, cfg, At(p, ConsumeWhitespace(s, p.pos)), out, currentOperator))

(* lines 656-664: try / catch around the next term; the catch writes the
   saved operator into the node that is last when the term failed *)
LoopAfterTerm(s, cfg, openingParenthesesLevel, previousBkp, term) ==
    IF term.err # "none"
    THEN Ret(term.p, SetLastOperator(term.out, previousBkp), term.err)
    ELSE ConditionLoop(s, cfg,
                       [term.p EXCEPT !.pending = SubSeq(@, 1, Len(@) - 1)],
                       term.out, openingParenthesesLevel)

(* the parser as the try block is entered *)
Trying(p, out, conditionOperator) ==
    [p EXCEPT !.edges = Append(@, conditionOperator),
              !.pending = Append(@, [level  |-> p.depth,
                                     at     |-> Len(out),
                                     before |-> out[Len(out)].operator])]

(* a loop that leaves the previous node's operator as it is *)
LoopNextTerm_KeepsPrevious(s, cfg, p, out, openingParenthesesLevel, conditionOperator) ==
    LoopAfterTerm(s, cfg, openingParenthesesLevel, out[Len(out)].operator,
                  parseTerm(s, cfg, Trying(p, out, conditionOperator),
                            out, conditionOperator))

(* lines 651-657 *)
LoopNextTerm(s, cfg, p, out, openingParenthesesLevel, conditionOperator) ==
    LoopAfterTerm(s, cfg, openingParenthesesLevel, out[Len(out)].operator,
                  parseTerm(s, cfg, Trying(p, out, conditionOperator),
                            SetLastOperator(out, conditionOperator),
                            conditionOperator))

(* an end of the sequence without this.#depth-- *)
LoopNoKeyword_NoDecrement(s, cfg, p, out, openingParenthesesLevel, pos) ==
    IF ~IsEOF(s, pos) /\ Peek(s, pos) # ")"
    THEN LoopNextTerm(s, cfg, At(p, pos), out, openingParenthesesLevel, "and")
    ELSE Ret(At(p, pos), out, "none")

(* lines 638-646: no keyword; implicit and, or the end of the sequence *)
LoopNoKeyword(s, cfg, p, out, openingParenthesesLevel, pos) ==
    IF ~IsEOF(s, pos) /\ Peek(s, pos) # ")"
    THEN LoopNextTerm(s, cfg, At(p, pos), out, openingParenthesesLevel, "and")
    ELSE Ret([At(p, pos) EXCEPT !.depth = p.depth - 1], out, "none")

LoopAfterJoin(s, cfg, p, out, openingParenthesesLevel, join) ==
    IF join.err # "none"
    THEN Ret(At(p, join.pos), out, join.err)
    ELSE IF join.op = "null"
    THEN LoopNoKeyword(s, cfg, p, out, openingParenthesesLevel,
                       ConsumeWhitespace(s, join.pos))
    ELSE LoopNextTerm(s, cfg,
                      [At(p, join.pos) EXCEPT
                           !.joins = Append(p.joins,
                                            [at  |-> ConsumeWhitespace(s, p.pos),
                                             pos |-> join.pos,
                                             op  |-> join.op])],
                      out, openingParenthesesLevel, join.op)

(* the while (true) loop of #parseCondition, lines 630-665, and its exit *)
ConditionLoop(s, cfg, p, out, openingParenthesesLevel) ==
    LoopAfterJoin(s, cfg, p, out, openingParenthesesLevel,
                  parseConditionOperator(s, ConsumeWhitespace(s, p.pos),
                                         openingParenthesesLevel))

ConditionAfterFirst(s, cfg, openingParenthesesLevel, first) ==
    IF first.err # "none"
    THEN first
    ELSE ConditionLoop(s, cfg, first.p, first.out, openingParenthesesLevel)

parseCondition(s, cfg, p, out, conditionOperator, openingParenthesesLevel) ==
    ConditionAfterFirst(s, cfg, openingParenthesesLevel,
                        parseTerm(s, cfg,
                                  [At(p, ConsumeWhitespace(s, p.pos)) EXCEPT
                                       !.depth = p.depth + 1,
                                       !.active = Max2(@, p.depth + 2)],
                                  out, conditionOperator))

----------------------------------------------------------------------------
(* Top-level driver *)

(* a parse without the try / catch *)
Catches_Nothing(err) == FALSE

(* a catch clause that handles the missing-colon failure only *)
Catches_OnlyExpectedColon(err) == err = "ExpectedColon"

(* the catch (_e) clause of parse: it has no filter *)
Catches(err) == TRUE

(* a constructor that ignores the option defaultOperator *)
Configure_StaticOnly(opts, staticDefault) ==
    [defaultOperator |-> staticDefault,
     transform       |-> IF opts.transform = "absent" THEN "identity" ELSE opts.transform,
     preAddHook      |-> opts.preAddHook,
     static          |-> staticDefault]

(* lines 182-200: the destructuring defaults of the constructor *)
Configure(opts, staticDefault) ==
    [defaultOperator |-> OrElse(opts.defaultOperator, staticDefault),
     transform       |-> IF opts.transform = "absent" THEN "identity" ELSE opts.transform,
     preAddHook      |-> opts.preAddHook,
     static          |-> staticDefault]

NewParser ==
    [pos |-> 0, depth |-> -1, meta |-> EmptyMeta, joins |-> <<>>, edges |-> <<>>,
     rule |-> -1, pending |-> <<>>, terms |-> <<>>,
     lo |-> 0, hi |-> 0, active |-> 0, nested |-> <<>>]

ExportMeta(meta) ==
    [keys        |-> meta.keys,
     operators   |-> meta.operators,
     values      |-> meta.values,
     expressions |-> [i \in DOMAIN meta.expressions |-> Destringify(meta.expressions[i])]]

(* lines 717-738.  thrown: the failure that leaves parse, "none" when parse
   returns; caught: the failure the catch clause received, "none" without
   one; the other fields: the parser instance's when parse returns *)
Outcome(s, r) ==
    IF r.err # "none" /\ ~Catches(r.err)
    THEN [parsed |-> <<>>, unparsed |-> <<>>, meta |-> ExportMeta(EmptyMeta),
          thrown |-> r.err, caught |-> "none", pos |-> r.p.pos, depth |-> r.p.depth,
          joins |-> r.p.joins, edges |-> r.p.edges, rule |-> r.p.rule,
          pending |-> r.p.pending, terms |-> r.p.terms,
          lo |-> r.p.lo, hi |-> r.p.hi, active |-> r.p.active, nested |-> r.p.nested]
    ELSE [parsed   |-> r.out,
          unparsed |-> IF r.err = "none" THEN <<>> ELSE Slice(s, r.p.pos),
          meta     |-> ExportMeta(r.p.meta),
          thrown   |-> "none",
          caught   |-> r.err,
          pos      |-> r.p.pos,
          depth    |-> r.p.depth,
          joins    |-> r.p.joins,
          edges    |-> r.p.edges,
          rule     |-> r.p.rule,
          pending  |-> r.p.pending,
          terms    |-> r.p.terms,
          lo       |-> r.p.lo,
          hi       |-> r.p.hi,
          active   |-> r.p.active,
          nested   |-> r.p.nested]

(* lines 715-719: openingLevel, then the top-level condition *)
ParseTrimmed(s, cfg) ==
    Outcome(s, parseCondition(s, cfg, NewParser, <<>>, "and",
                              Some(CountSameCharsAhead(s, 0, "("))))

parse(inp, opts, staticDefault) == ParseTrimmed(Trim(inp), Configure(opts, staticDefault))

(* the call a re-entering callback makes: another input, other options *)
InnerInput == <<"B", ":", "a", " ", "o", "r", " ", "(", "a">>

InnerOptions ==
    [defaultOperator |-> Undefined, transform |-> "lowerKey", preAddHook |-> "rejectAll"]

(* what parse returns: the history fields are not part of it *)
Returned(r) == [parsed |-> r.parsed, unparsed |-> r.unparsed, meta |-> r.meta]

(* an inner call that runs on the outer call's instance: its constructor
   resets the cursor, the depth and the accumulators, and the outer call
   goes on with what the inner call left *)
SharedReturn(p, r) ==
    [r.p EXCEPT !.nested = Append(p.nested, Returned(Outcome(Trim(InnerInput), r)))]

Reenter_SharedInstance(cfg, p) ==
    SharedReturn(p, parseCondition(Trim(InnerInput), Configure(InnerOptions, cfg.static),
                                   [p EXCEPT !.pos = 0, !.depth = -1, !.meta = EmptyMeta],
                                   <<>>, "and",
                                   Some(CountSameCharsAhead(Trim(InnerInput), 0, "("))))

(* lines 706-711: parse builds its own instance, new ConditionParser(input,
   options); the outer instance is not touched *)
Reenter(cfg, p) ==
    [p EXCEPT !.nested = Append(@, Returned(parse(InnerInput, InnerOptions, cfg.static)))]

----------------------------------------------------------------------------
(* Inputs and options drawn by the specifications *)

RECURSIVE Flatten(_)
Flatten(ps) == IF ps = <<>> THEN <<>> ELSE Head(ps) \o Flatten(Tail(ps))

SeqsUpTo(S, n) == UNION {[1..k -> S] : k \in 0..n}

EQ == <<"e", "q">>

GT == <<"g", "t">>

LT == <<"l", "t">>

SPACE == <<" ">>

DefaultOptions ==
    [defaultOperator |-> Undefined, transform |-> "absent", preAddHook |-> "absent"]

NoResult ==
    [parsed |-> <<>>, unparsed |-> <<>>, meta |-> ExportMeta(EmptyMeta),
     thrown |-> "none", caught |-> "none", pos |-> 0, depth |-> -1,
     joins |-> <<>>, edges |-> <<>>, rule |-> -1, pending |-> <<>>, terms |-> <<>>,
     lo |-> 0, hi |-> 0, active |-> 0, nested |-> <<>>]

(* Spec: every concatenation of at most MaxParts pieces of the notation *)
Parts ==
    { <<"a", ":", "b">>, <<"a", ":", "(", "b", ")">>, <<"(", "a", ":", "b", ")">>,
      <<"a">>, <<":">>, <<"(">>, <<")">>, SPACE,
      <<"a", "n", "d", " ">>, <<"o", "r", " ">>, <<"n", "o", "t", " ">>,
      <<"\"">>, <<"\\">>, <<"\t">> }

Inputs == {Flatten(ps) : ps \in SeqsUpTo(Parts, MaxParts)}

(* SpecSentence: a first leaf followed by join keywords, words and leaves;
   a well-formed condition followed by free text; two terms side by side *)
JoinParts ==
    { <<"a", "n", "d", " ">>, <<"O", "r", " ">>, <<"n", "o", "t", " ">>,
      <<"a", ":", "b">>, <<"a">>, SPACE }

JoinInputs ==
    {<<"a", ":", "b", " ">> \o Flatten(ps) : ps \in SeqsUpTo(JoinParts, MaxJoinParts)}

WellFormedConditions ==
    { <<"a", ":", "b">>,
      <<"a", ":", "b", " ", "a", "n", "d", " ", "b", ":", "a">>,
      <<"a", ":", "b", " ", "o", "r", " ", "b", ":", "a">>,
      <<"(", "a", ":", "b", ")">>,
      <<"a", ":", "b", " ", "a", "n", "d", " ", "(", "b", ":", "a", " ", "o", "r", " ",
        "a", ":", "a", ")">>,
      <<"a", ":", "e", "q", ":", "(", "b", ")">> }

Words == { <<"a">>, <<"n", "o", "t">>, <<"h", "o">> }

RECURSIVE JoinWords(_)
JoinWords(ws) ==
    IF Len(ws) = 1 THEN ws[1] ELSE ws[1] \o SPACE \o JoinWords(Tail(ws))

FreeTexts == {JoinWords(ws) : ws \in SeqsUpTo(Words, MaxWords) \ {<<>>}}

FreeTextInputs == {C \o SPACE \o T : C \in WellFormedConditions, T \in FreeTexts}

Terms ==
    { <<"a", ":", "b">>, <<"b", ":", "g", "t", ":", "a">>, <<"a", ":", "(", "b", ")">>,
      <<"(", "a", ":", "b", ")">>, <<"(", "a", ":", "b", " ", "o", "r", " ", "b", ":", "a", ")">> }

PairInputs ==
    {X \o SPACE \o Y : X \in Terms, Y \in Terms}
        \cup {<<"(">> \o X \o SPACE \o Y \o <<")">> : X \in Terms, Y \in Terms}

SentenceInputs == JoinInputs \cup FreeTextInputs \cup PairInputs

(* SpecOptions: leaves, groups and joins parsed under each choice of options *)
TermParts ==
    { <<"a", ":", "b">>, <<"b", ":", "b">>, <<"A", ":", "a", ":", "b">>,
      <<" ", "a", ":", "b">>, <<" ", "b", ":", "b">>,
      SPACE, <<" ", "o", "r", " ">>, <<"(">>, <<")">> }

TermInputs == {Flatten(ps) : ps \in SeqsUpTo(TermParts, MaxTerms)}

(* SpecCallbacks: the same inputs under callbacks that throw *)
ThrowingChoices ==
    [defaultOperator : {Undefined},
     transform       : {"absent", "throws", "throwsOnKeyB"},
     preAddHook      : {"absent", "throws", "throwsOnKeyB"}]

(* SpecReentrant: the same inputs under a transform that calls parse *)
ReentrantChoices ==
    [defaultOperator : {Undefined},
     transform       : {"reenters"},
     preAddHook      : {"absent", "onlyKeyA"}]

OptionChoices ==
    [defaultOperator : {Undefined, Some(LT)},
     transform       : {"absent", "lowerKey", "returnsUndefined"},
     preAddHook      : {"absent", "onlyKeyA", "rejectAll"}]

(* SpecDiagnostic: the arguments of a standalone call of __createError *)
Alphabet == <<"a", "b", "d", "g", "h", "k", "m", "p">>

ErrorInputs == {SubSeq(Alphabet, 1, n) : n \in 0..MaxErrorLen}

ErrorPositions == (0 - 2)..(MaxErrorLen + 2)

ErrorRadii == (0..MaxRadius) \cup {DefaultContextRadius}

ErrorMessages == {<<>>, <<"T", "e", "s", "t">>}

NoErrorArgs == [pos |-> 0, message |-> <<>>, contextRadius |-> DefaultContextRadius]

NoError == [thrown |-> "none", message |-> <<>>]

(* SpecLiteral: a lexer called with the cursor at from on a text over the
   characters the lexers tell apart *)
LiteralCharacters == {"a", "\\", "\"", "'", ":", "(", ")", " "}

LiteralInputs == UNION {[1..n -> LiteralCharacters] : n \in 0..MaxLiteralLen}

LiteralStarts == {0, 1}

NoLiteral == [lexer |-> "none", from |-> 0, pos |-> 0, val |-> <<>>, err |-> "none"]

Literal(lexer, from, lexed) ==
    [lexer |-> lexer, from |-> from, pos |-> lexed.pos, val |-> lexed.val,
     err |-> lexed.err]

----------------------------------------------------------------------------
(* The state machine: a caller may assign the static DEFAULT_OPERATOR, then *)
(* calls ConditionParser.parse(input, options) once.                        *)

Init ==
    /\ input \in Inputs
    /\ options = DefaultOptions
    /\ DEFAULT_OPERATOR = EQ
    /\ pc = "idle"
    /\ result = NoResult
    /\ errorArgs = NoErrorArgs
    /\ error = NoError
    /\ literal = NoLiteral

InitSentence ==
    /\ input \in SentenceInputs
    /\ options = DefaultOptions
    /\ DEFAULT_OPERATOR = EQ
    /\ pc = "idle"
    /\ result = NoResult
    /\ errorArgs = NoErrorArgs
    /\ error = NoError
    /\ literal = NoLiteral

InitOptions ==
    /\ input \in TermInputs
    /\ options \in OptionChoices
    /\ DEFAULT_OPERATOR = EQ
    /\ pc = "idle"
    /\ result = NoResult
    /\ errorArgs = NoErrorArgs
    /\ error = NoError
    /\ literal = NoLiteral

InitCallbacks ==
    /\ input \in TermInputs
    /\ options \in ThrowingChoices
    /\ DEFAULT_OPERATOR = EQ
    /\ pc = "idle"
    /\ result = NoResult
    /\ errorArgs = NoErrorArgs
    /\ error = NoError
    /\ literal = NoLiteral

InitReentrant ==
    /\ input \in TermInputs
    /\ options \in ReentrantChoices
    /\ DEFAULT_OPERATOR = EQ
    /\ pc = "idle"
    /\ result = NoResult
    /\ errorArgs = NoErrorArgs
    /\ error = NoError
    /\ literal = NoLiteral

InitDiagnostic ==
    /\ input \in ErrorInputs
    /\ errorArgs \in [pos : ErrorPositions, message : ErrorMessages,
                      contextRadius : ErrorRadii]
    /\ options = DefaultOptions
    /\ DEFAULT_OPERATOR = EQ
    /\ pc = "idle"
    /\ result = NoResult
    /\ error = NoError
    /\ literal = NoLiteral

SetDefaultOperator ==
    /\ pc = "idle"
    /\ DEFAULT_OPERATOR = EQ
    /\ DEFAULT_OPERATOR' = GT
    /\ UNCHANGED <<input, options, pc, result, errorArgs, error, literal>>

CallParse ==
    /\ pc = "idle"
    /\ result' = parse(input, options, DEFAULT_OPERATOR)
    /\ pc' = "done"
    /\ UNCHANGED <<input, options, DEFAULT_OPERATOR, errorArgs, error, literal>>

Next == SetDefaultOperator \/ CallParse

CallCreateError ==
    /\ pc = "idle"
    /\ error' = __createError(input, errorArgs.pos, errorArgs.message,
                              errorArgs.contextRadius)
    /\ pc' = "reported"
    /\ UNCHANGED <<input, options, DEFAULT_OPERATOR, result, errorArgs, literal>>

NextDiagnostic == CallCreateError

InitLiteral ==
    /\ input \in LiteralInputs
    /\ options = DefaultOptions
    /\ DEFAULT_OPERATOR = EQ
    /\ pc = "idle"
    /\ result = NoResult
    /\ errorArgs = NoErrorArgs
    /\ error = NoError
    /\ literal = NoLiteral

CallParseQuotedString ==
    /\ pc = "idle"
    /\ \E from \in LiteralStarts :
           /\ from <= Len(input)
           /\ literal' = Literal("parseQuotedString", from, parseQuotedString(input, from))
    /\ pc' = "lexed"
    /\ UNCHANGED <<input, options, DEFAULT_OPERATOR, result, errorArgs, error>>

CallParseUnquotedString ==
    /\ pc = "idle"
    /\ \E from \in LiteralStarts :
           /\ from <= Len(input)
           /\ literal' = Literal("parseUnquotedString", from,
                                 parseUnquotedString(input, from))
    /\ pc' = "lexed"
    /\ UNCHANGED <<input, options, DEFAULT_OPERATOR, result, errorArgs, error>>

CallParseParenthesizedValue ==
    /\ pc = "idle"
    /\ \E from \in LiteralStarts :
           /\ from <= Len(input)
           /\ literal' = Literal("parseParenthesizedValue", from,
                                 parseParenthesizedValue(input, from))
    /\ pc' = "lexed"
    /\ UNCHANGED <<input, options, DEFAULT_OPERATOR, result, errorArgs, error>>

NextLiteral ==
    CallParseQuotedString \/ CallParseUnquotedString \/ CallParseParenthesizedValue

Spec == Init /\ [][Next]_vars

SpecSentence == InitSentence /\ [][Next]_vars

SpecOptions == InitOptions /\ [][Next]_vars

SpecCallbacks == InitCallbacks /\ [][Next]_vars

SpecReentrant == InitReentrant /\ [][Next]_vars

SpecDiagnostic == InitDiagnostic /\ [][NextDiagnostic]_vars

SpecLiteral == InitLiteral /\ [][NextLiteral]_vars

-----
(* Vocabulary of the properties, stated without the parser's own routines  *)

FailureKinds ==
    { "ExpectedColon", "UnterminatedQuote", "UnterminatedParenValue",
      "ParenthesizedOperatorNotAllowed", "ParenLevelMismatch", "ExpectedClosingParen" }

(* 1-based index of the first character of inp that is not whitespace,
   Len(inp) + 1 when there is none *)
FirstNonWs(inp) ==
    CHOOSE k \in 1..(Len(inp) + 1) :
        /\ \A m \in 1..(k - 1) : IsWs(inp[m])
        /\ k <= Len(inp) => ~IsWs(inp[k])

(* 1-based index of the last character of inp that is not whitespace, 0 when
   there is none *)
LastNonWs(inp) ==
    CHOOSE k \in 0..Len(inp) :
        /\ \A m \in (k + 1)..Len(inp) : IsWs(inp[m])
        /\ k >= 1 => ~IsWs(inp[k])

(* inp without its leading and trailing whitespace *)
Trimmed(inp) == SubSeq(inp, FirstNonWs(inp), LastNonWs(inp))

IsTrimOf(t, inp) == t = Trimmed(inp)

IsPrefixOf(u, t) == Len(u) <= Len(t) /\ u = SubSeq(t, 1, Len(u))

----------------------------------------------------------------------------
(* C1: parse returns a result {parsed, unparsed, meta} for every input: no
   failure raised inside the parsing procedures (one of the six failure kinds)
   ever leaves parse, and no other kind of failure is raised. *)
C1_NoFailureEscapes ==
    pc = "done" =>
        /\ result.thrown = "none"
        /\ result.caught \in FailureKinds \cup {"none"}

C1_Witness ==
    /\ pc = "done"
    /\ result.caught = "ExpectedClosingParen"
    /\ result.thrown = "none"
    /\ result.parsed # <<>>

(* C2: whatever the outcome, unparsed is a suffix of the trimmed input: the
   trimmed input from some position p, 0 <= p <= length, to its end. *)
C2_UnparsedIsSuffix ==
    pc = "done" =>
        \E p \in 0..Len(Trimmed(input)) : result.unparsed = Slice(Trimmed(input), p)

C2_Witness ==
    /\ pc = "done"
    /\ result.caught # "none"
    /\ result.parsed # <<>>
    /\ result.unparsed # <<>>
    /\ IsWs(input[1])
    /\ Len(result.unparsed) < Len(input) - 1

(* C4: for every input without a colon, whatever else it contains, parsed is
   empty and unparsed is the trimmed input. *)
C4_NoColonAllUnparsed ==
    (pc = "done" /\ ":" \notin Range(input)) =>
        /\ result.parsed = <<>>
        /\ IsTrimOf(result.unparsed, input)

(* well-formed conditions in which every group and parenthesized value is
   closed *)
ClosedConditions ==
    { <<"a", ":", "b">>, <<"a", ":", "(", "b", ")">>, <<"(", "a", ":", "b", ")">> }

(* C8: a closing parenthesis that closes neither an open group nor a
   parenthesized value is not consumed: unparsed starts with it. *)
C8_DanglingParenLeftOver ==
    pc = "done" =>
        \A W \in ClosedConditions :
            \A t \in {SubSeq(input, i, Len(input)) : i \in 1..(Len(input) + 1)} :
                (/\ IsTrimOf(t, input)
                 /\ IsPrefixOf(W \o <<")">>, t))
                => result.unparsed = Slice(t, Len(W))

----------------------------------------------------------------------------
(* C3: appended free text is preserved: for a well-formed condition C and
   free text T (words, no colon, quote or parenthesis), parse(C + ' ' + T)
   has the parsed tree of parse(C) and unparsed = T. *)
C3_FreeTextPreserved ==
    pc = "done" =>
        \A C \in WellFormedConditions : \A T \in FreeTexts :
            input = C \o SPACE \o T =>
                /\ result.parsed = parse(C, options, DEFAULT_OPERATOR).parsed
                /\ result.unparsed = T

(* C5: the keyword and is optional between two terms, at top level and
   inside a group: parse('X Y') returns the parsed tree and the unparsed text
   of parse('X and Y'). *)
SameOutcome(r, inp) ==
    /\ r.parsed = parse(inp, options, DEFAULT_OPERATOR).parsed
    /\ r.unparsed = parse(inp, options, DEFAULT_OPERATOR).unparsed

AND == <<" ", "a", "n", "d", " ">>

C5_ImplicitAnd ==
    pc = "done" =>
        \A X \in Terms : \A Y \in Terms :
            /\ input = X \o SPACE \o Y => SameOutcome(result, X \o AND \o Y)
            /\ input = <<"(">> \o X \o SPACE \o Y \o <<")">>
                   => SameOutcome(result, <<"(">> \o X \o AND \o Y \o <<")">>)

----------------------------------------------------------------------------
(* 1-based index of the first character at or after i that is not whitespace,
   Len(t) + 1 when there is none *)
WsRunEnd(t, i) ==
    CHOOSE k \in i..(Len(t) + 1) :
        /\ \A m \in i..(k - 1) : IsWs(t[m])
        /\ k <= Len(t) => ~IsWs(t[k])

(* the word w, in any case, stands at the 1-based index i of t *)
WordAt(t, i, w) ==
    /\ i + Len(w) - 1 <= Len(t)
    /\ \A m \in 1..Len(w) : Lower(t[i + m - 1]) = w[m]

KeywordOf(op) == IF op \in {"and", "andNot"} THEN <<"a", "n", "d">> ELSE <<"o", "r">>

(* after the keyword that ends before the 1-based index i: whitespace only,
   the word not, whitespace *)
NotFollows(t, i) ==
    /\ WsRunEnd(t, i) > i
    /\ WordAt(t, WsRunEnd(t, i), <<"n", "o", "t">>)
    /\ WsRunEnd(t, WsRunEnd(t, i) + 3) > WsRunEnd(t, i) + 3

(* C6: a join is andNot / orNot exactly when its keyword is followed, after
   whitespace only, by not and whitespace, and then the cursor is behind
   exactly that sequence; in every other case the join is the plain operator
   and the cursor is behind the keyword, inside or at the end of the
   whitespace that follows it. *)
C6_NotOnlyDirectlyAfterKeyword ==
    pc = "done" =>
        \A n \in DOMAIN result.joins :
            /\ WordAt(Trimmed(input), result.joins[n].at + 1, KeywordOf(result.joins[n].op))
            /\ IF NotFollows(Trimmed(input),
                             result.joins[n].at + 1 + Len(KeywordOf(result.joins[n].op)))
               THEN /\ result.joins[n].op \in {"andNot", "orNot"}
                    /\ result.joins[n].pos + 1 =
                           WsRunEnd(Trimmed(input),
                                    WsRunEnd(Trimmed(input),
                                             result.joins[n].at + 1
                                                 + Len(KeywordOf(result.joins[n].op))) + 3)
               ELSE /\ result.joins[n].op \in {"and", "or"}
                    /\ result.joins[n].pos + 1 >
                           result.joins[n].at + 1 + Len(KeywordOf(result.joins[n].op))
                    /\ result.joins[n].pos + 1 <=
                           WsRunEnd(Trimmed(input),
                                    result.joins[n].at + 1
                                        + Len(KeywordOf(result.joins[n].op)))

----------------------------------------------------------------------------
Letters == {"a", "b", "A"}

(* text is k:v or k:o:v with one-letter fields *)
IsLeafText(text) ==
    \/ Len(text) = 3 /\ text[2] = ":" /\ {text[1], text[3]} \subseteq Letters
    \/ /\ Len(text) = 5 /\ text[2] = ":" /\ text[4] = ":"
       /\ {text[1], text[3], text[5]} \subseteq Letters

(* the option defaultOperator if given, else the static DEFAULT_OPERATOR *)
ConfiguredDefault ==
    IF options.defaultOperator # Undefined
    THEN options.defaultOperator[1]
    ELSE DEFAULT_OPERATOR

(* the leaf the text stands for *)
ResolvedLeaf(text) ==
    IF Len(text) = 3
    THEN [key |-> <<text[1]>>, operator |-> ConfiguredDefault, value |-> <<text[3]>>]
    ELSE [key |-> <<text[1]>>, operator |-> <<text[3]>>, value |-> <<text[5]>>]

Separators == {SPACE, <<" ", "o", "r", " ">>}

(* C7: without transform and preAddHook, key:value yields the leaf {key,
   configured default operator, value}, the configured default being the
   option defaultOperator if given and the static DEFAULT_OPERATOR otherwise;
   key:op:value yields {key, op, value} with op verbatim.  Stated for a leaf
   alone, two leaves side by side or joined by or, and a leaf in a group. *)
C7_OperatorResolution ==
    (pc = "done" /\ options.transform = "absent" /\ options.preAddHook = "absent") =>
        /\ IsLeafText(Trimmed(input)) =>
               /\ Len(result.parsed) = 1
               /\ result.parsed[1].expression = <<ResolvedLeaf(Trimmed(input))>>
        /\ (/\ Len(input) > 2
            /\ input[1] = "(" /\ input[Len(input)] = ")"
            /\ IsLeafText(SubSeq(input, 2, Len(input) - 1))) =>
               /\ Len(result.parsed) = 1
               /\ Len(result.parsed[1].condition[1]) = 1
               /\ result.parsed[1].condition[1][1].expression =
                      <<ResolvedLeaf(SubSeq(input, 2, Len(input) - 1))>>
        /\ \A i \in {3, 5} : \A sep \in Separators :
               (/\ Len(input) >= i + Len(sep) + 3
                /\ IsLeafText(SubSeq(input, 1, i))
                /\ SubSeq(input, i + 1, i + Len(sep)) = sep
                /\ IsLeafText(SubSeq(input, i + Len(sep) + 1, Len(input)))) =>
                   /\ Len(result.parsed) = 2
                   /\ result.parsed[1].expression = <<ResolvedLeaf(SubSeq(input, 1, i))>>
                   /\ result.parsed[2].expression =
                          <<ResolvedLeaf(SubSeq(input, i + Len(sep) + 1, Len(input)))>>

C7_Witness ==
    /\ pc = "done"
    /\ options = [defaultOperator |-> Some(LT), transform |-> "absent",
                  preAddHook |-> "absent"]
    /\ DEFAULT_OPERATOR = GT
    /\ input = <<"a", ":", "b", " ", "o", "r", " ", "A", ":", "a", ":", "b">>
    /\ result.parsed[1].expression[1].operator = LT
    /\ result.parsed[2].expression[1].operator = <<"a">>

----------------------------------------------------------------------------
(* the character at the 1-based index i of t is not escaped by a backslash *)
NotEscaped(t, i) == i = 1 \/ t[i - 1] # "\\"

OnlyWsBetween(t, i, j) == \A m \in (i + 1)..(j - 1) : IsWs(t[m])

(* at the 0-based position p of t begins an expression whose literal after
   the first colon is parenthesized and followed by a second colon: a key, at
   the 1-based index i the first colon, at j the opening and at k the closing
   parenthesis of the literal, at l the second colon *)
RejectedExpressionAt(t, p) ==
    \E i \in (p + 1)..Len(t) :
        /\ t[i] = ":"
        /\ (i > p + 1 => ~IsWs(t[p + 1]) /\ t[p + 1] \notin {"(", ")"})
        /\ \E j \in (i + 1)..Len(t) :
            /\ t[j] = "("
            /\ OnlyWsBetween(t, i, j)
            /\ \E k \in (j + 1)..Len(t) :
                /\ t[k] = ")" /\ NotEscaped(t, k)
                /\ \A m \in (j + 1)..(k - 1) : t[m] = ")" => ~NotEscaped(t, m)
                /\ \E l \in (k + 1)..Len(t) :
                    /\ t[l] = ":"
                    /\ OnlyWsBetween(t, k, l)

PlainKeys == {<<"a">>, <<"b">>, <<"a", "a">>}

(* C9: when the literal after an expression's first colon is parenthesized
   and a second colon follows, the expression is rejected as a whole: the
   cursor is back at the expression's first character, unparsed is the input
   from there, and parsed and meta are what the input cut before the
   expression gives; an input that begins with such an expression gives an
   empty tree, empty meta and itself as unparsed. *)
C9_ParenthesizedOperatorRejected ==
    pc = "done" =>
        /\ result.caught = "ParenthesizedOperatorNotAllowed" =>
               /\ RejectedExpressionAt(Trimmed(input), result.pos)
               /\ result.unparsed = Slice(Trimmed(input), result.pos)
               /\ result.parsed =
                      parse(SubSeq(Trimmed(input), 1, result.pos), options,
                            DEFAULT_OPERATOR).parsed
               /\ result.meta =
                      parse(SubSeq(Trimmed(input), 1, result.pos), options,
                            DEFAULT_OPERATOR).meta
        /\ \A K \in PlainKeys :
               IsPrefixOf(K \o <<":", "(", "b", ")", ":">>, Trimmed(input)) =>
                   /\ result.caught = "ParenthesizedOperatorNotAllowed"
                   /\ result.parsed = <<>>
                   /\ result.meta = ExportMeta(EmptyMeta)
                   /\ result.unparsed = Trimmed(input)

C9_Witness ==
    /\ pc = "done"
    /\ result.caught = "ParenthesizedOperatorNotAllowed"
    /\ result.parsed # <<>>
    /\ result.pos > 0
    /\ result.unparsed = Slice(Trimmed(input), result.pos)

----------------------------------------------------------------------------
(* the leaves of a tree, depth first, in the order of the input *)
RECURSIVE LeavesOf(_)
LeavesOf(nodes) ==
    IF nodes = <<>>
    THEN <<>>
    ELSE (IF Head(nodes).expression # <<>>
          THEN Head(nodes).expression
          ELSE LeavesOf(Head(nodes).condition[1]))
         \o LeavesOf(Tail(nodes))

(* the elements of seq in the order of their first occurrence *)
Distinct(seq) ==
    LET first == {i \in DOMAIN seq : \A m \in 1..(i - 1) : seq[m] # seq[i]}
        rank(i) == Cardinality({m \in first : m <= i})
    IN  [n \in 1..Cardinality(first) |-> seq[CHOOSE i \in first : rank(i) = n]]

Project(leaves, field) ==
    [i \in DOMAIN leaves |->
        CASE field = "key"      -> leaves[i].key
          [] field = "operator" -> leaves[i].operator
          [] field = "value"    -> leaves[i].value
          [] OTHER              -> leaves[i]]

(* C10: meta.keys, meta.operators, meta.values and meta.expressions are the
   distinct keys, operators, values and triples of the leaves of parsed, as
   emitted after transform and preAddHook, placeholders included, in the
   order of first occurrence and without duplicates. *)
C10_MetaIsDistinctLeaves ==
    pc = "done" =>
        /\ result.meta.keys = Distinct(Project(LeavesOf(result.parsed), "key"))
        /\ result.meta.operators = Distinct(Project(LeavesOf(result.parsed), "operator"))
        /\ result.meta.values = Distinct(Project(LeavesOf(result.parsed), "value"))
        /\ result.meta.expressions = Distinct(Project(LeavesOf(result.parsed), "triple"))

C10_Witness ==
    /\ pc = "done"
    /\ options.preAddHook = "onlyKeyA"
    /\ Len(LeavesOf(result.parsed)) = 3
    /\ Len(result.meta.expressions) = 2
    /\ Len(result.meta.keys) = 2
    /\ result.meta.keys = << <<"a">>, <<"1">> >>

----------------------------------------------------------------------------
(* the shape of a tree: per node its join operator and, for a group, the
   shape of its sequence *)
RECURSIVE Shape(_)
Shape(nodes) ==
    [i \in DOMAIN nodes |->
        [operator |-> nodes[i].operator,
         leaf     |-> nodes[i].expression # <<>>,
         group    |-> IF nodes[i].condition # <<>>
                      THEN <<Shape(nodes[i].condition[1])>>
                      ELSE <<>>]]

(* the result of the same call without the preAddHook *)
WithoutHook == parse(input, [options EXCEPT !.preAddHook = "absent"], DEFAULT_OPERATOR)

(* the leaf emitted under the hook for the leaf e emitted without it *)
HookedLeaf(e) ==
    IF ApplyPreAddHook(options.preAddHook, e) # <<>>
    THEN ApplyPreAddHook(options.preAddHook, e)[1]
    ELSE [key |-> <<"1">>, operator |-> ConfiguredDefault, value |-> <<"1">>]

(* C11: a preAddHook that does not throw never changes the shape of the
   result: parsed has the nesting, the node counts and the join operators of
   the parse without the hook, unparsed is the same, and each leaf is the
   hook's result for the leaf of the parse without the hook, or the
   placeholder {'1', configured default operator, '1'} when the hook returned
   a falsy value; no leaf is dropped. *)
C11_HookKeepsShape ==
    (pc = "done" /\ options.preAddHook # "absent") =>
        /\ Shape(result.parsed) = Shape(WithoutHook.parsed)
        /\ result.unparsed = WithoutHook.unparsed
        /\ LeavesOf(result.parsed) =
               [i \in DOMAIN LeavesOf(WithoutHook.parsed) |->
                   HookedLeaf(LeavesOf(WithoutHook.parsed)[i])]

C11_Witness ==
    /\ pc = "done"
    /\ options.preAddHook = "onlyKeyA"
    /\ Len(result.parsed) = 2
    /\ result.parsed[1].operator = "or"
    /\ result.parsed[1].expression # <<>>
    /\ result.parsed[1].expression[1].key = <<"a">>
    /\ result.parsed[2].expression =
           <<[key |-> <<"1">>, operator |-> ConfiguredDefault, value |-> <<"1">>]>>
    /\ result.unparsed = <<>>

----------------------------------------------------------------------------
(* C12: for the empty string and for every whitespace-only input, parse
   returns parsed = [], unparsed = '' and meta with keys, operators, values
   and expressions all empty, and raises nothing to the caller. *)
C12_EmptyInput ==
    (pc = "done" /\ \A i \in DOMAIN input : IsWs(input[i])) =>
        /\ result.thrown = "none"
        /\ result.parsed = <<>>
        /\ result.unparsed = <<>>
        /\ result.meta = [keys |-> <<>>, operators |-> <<>>, values |-> <<>>,
                          expressions |-> <<>>]

C12_Witness ==
    /\ pc = "done"
    /\ Len(input) >= 2
    /\ \A i \in DOMAIN input : IsWs(input[i])
    /\ "\t" \in Range(input) /\ " " \in Range(input)
    /\ result.caught = "ExpectedColon"
    /\ result.parsed = <<>>

----------------------------------------------------------------------------
DelimiterCharacters == Whitespace \cup {":", "(", ")", "\"", "'", "\\"}

DelimiterFree(leaves) ==
    \A i \in DOMAIN leaves :
        (Range(leaves[i].key) \cup Range(leaves[i].operator) \cup Range(leaves[i].value))
            \cap DelimiterCharacters = {}

JoinKeyword(op) ==
    CASE op = "and"    -> <<" ", "a", "n", "d", " ">>
      [] op = "or"     -> <<" ", "o", "r", " ">>
      [] op = "andNot" -> <<" ", "a", "n", "d", " ", "n", "o", "t", " ">>
      [] OTHER         -> <<" ", "o", "r", " ", "n", "o", "t", " ">>

(* a sequence rendered back to text: each leaf as key:op:value, each group in
   parentheses, siblings joined by the keyword of the preceding node's
   operator *)
RECURSIVE Render(_)
Render(nodes) ==
    IF nodes = <<>>
    THEN <<>>
    ELSE (IF Head(nodes).expression # <<>>
          THEN Head(nodes).expression[1].key \o <<":">>
                   \o Head(nodes).expression[1].operator \o <<":">>
                   \o Head(nodes).expression[1].value
          ELSE <<"(">> \o Render(Head(nodes).condition[1]) \o <<")">>)
         \o (IF Len(nodes) > 1 THEN JoinKeyword(Head(nodes).operator) ELSE <<>>)
         \o Render(Tail(nodes))

(* C13: round trip: a tree returned with unparsed = '' whose keys, operators
   and values contain no delimiter characters, rendered and parsed again,
   gives the same tree and unparsed = ''. *)
C13_RoundTrip ==
    (/\ pc = "done"
     /\ result.unparsed = <<>>
     /\ result.parsed # <<>>
     /\ DelimiterFree(LeavesOf(result.parsed))) =>
        /\ parse(Render(result.parsed), options, DEFAULT_OPERATOR).parsed = result.parsed
        /\ parse(Render(result.parsed), options, DEFAULT_OPERATOR).unparsed = <<>>

----------------------------------------------------------------------------
(* the lines of a text: the pieces between its line feeds *)
RECURSIVE Lines(_)
Lines(text) ==
    IF "\n" \notin Range(text)
    THEN <<text>>
    ELSE <<SubSeq(text, 1, (CHOOSE k \in DOMAIN text :
                                /\ text[k] = "\n"
                                /\ \A m \in 1..(k - 1) : text[m] # "\n") - 1)>>
         \o Lines(SubSeq(text,
                         (CHOOSE k \in DOMAIN text :
                              /\ text[k] = "\n"
                              /\ \A m \in 1..(k - 1) : text[m] # "\n") + 1,
                         Len(text)))

(* C14: __createError returns an Error and does not itself fail, for any
   input, any integer position, negative ones and ones past the end of the
   input included, and any message. *)
C14_HelperNeverFails ==
    pc = "reported" =>
        /\ error.thrown = "none"
        /\ Len(Lines(error.message)) = 4

(* the context window the claim states: input[max(0, position - radius) ..
   min(length, position + radius)) *)
WindowStart == IF errorArgs.pos - errorArgs.contextRadius > 0
               THEN errorArgs.pos - errorArgs.contextRadius
               ELSE 0

WindowEnd == IF errorArgs.pos + errorArgs.contextRadius < Len(input)
             THEN errorArgs.pos + errorArgs.contextRadius
             ELSE Len(input)

(* C15: for 0 <= position < length (and a radius of at least 1, so that the
   character is printed), the message has four lines: the message, 'Position:
   <n>', 'Context: "<window>"' and a caret line of spaces ending in '^'; the
   column of the caret equals the column at which the character at position
   is printed in the third line. *)
C15_CaretUnderPosition ==
    (/\ pc = "reported"
     /\ errorArgs.pos >= 0 /\ errorArgs.pos < Len(input)
     /\ errorArgs.contextRadius >= 1) =>
        /\ error.thrown = "none"
        /\ Len(Lines(error.message)) = 4
        /\ Lines(error.message)[1] = errorArgs.message
        /\ Lines(error.message)[2] = PositionLabel \o <<DigitChars[errorArgs.pos + 1]>>
        /\ Lines(error.message)[3] =
               ContextLabel \o SubSeq(input, WindowStart + 1, WindowEnd) \o <<"\"">>
        /\ Lines(error.message)[4][Len(Lines(error.message)[4])] = "^"
        /\ \A k \in 1..(Len(Lines(error.message)[4]) - 1) : Lines(error.message)[4][k] = " "
        /\ Lines(error.message)[3][Len(Lines(error.message)[4])] = input[errorArgs.pos + 1]

----------------------------------------------------------------------------
(* for every node that has a previous sibling, in the order of the input,
   the operator field of that previous sibling *)
RECURSIVE ForwardEdges(_, _)
ForwardEdges(nodes, i) ==
    IF i > Len(nodes)
    THEN <<>>
    ELSE (IF i > 1 THEN <<nodes[i - 1].operator>> ELSE <<>>)
         \o (IF nodes[i].condition # <<>>
             THEN ForwardEdges(nodes[i].condition[1], 1)
             ELSE <<>>)
         \o ForwardEdges(nodes, i + 1)

(* C16: forward-edge convention: in every sequence of the returned tree, top
   level or nested, after success or failure, each node that has a next
   sibling carries the join operator recognized between it and that sibling,
   the keyword's operator or and when the join was implicit: read in the
   order of the input, these operator fields are the joins the parser went
   on with, except for a last join whose term gave no node. *)
C16_ForwardEdge ==
    pc = "done" =>
        /\ IsPrefixOf(ForwardEdges(result.parsed, 1), result.edges)
        /\ Len(result.edges) <= Len(ForwardEdges(result.parsed, 1)) + 1
        /\ result.caught = "none" =>
               Len(result.edges) = Len(ForwardEdges(result.parsed, 1))

C16_Witness ==
    /\ pc = "done"
    /\ result.caught = "ExpectedColon"
    /\ Len(result.parsed) = 2
    /\ result.parsed[1].operator = "or"
    /\ result.edges = <<"or", "and">>

----------------------------------------------------------------------------
(* in the sequence nodes entered under the operator context, the last node
   carries the operator that led into it (the previous sibling's forward
   edge, or context for a first node), and so does every nested sequence,
   entered under the operator that led into its group *)
RECURSIVE LastCarriesLeading(_, _)
LastCarriesLeading(nodes, context) ==
    /\ nodes # <<>> =>
           nodes[Len(nodes)].operator =
               (IF Len(nodes) = 1 THEN context ELSE nodes[Len(nodes) - 1].operator)
    /\ \A i \in DOMAIN nodes :
           nodes[i].condition # <<>> =>
               LastCarriesLeading(nodes[i].condition[1],
                                  IF i = 1 THEN context ELSE nodes[i - 1].operator)

(* C17: the last node of every sequence of the returned tree carries the join
   operator that led into it: the operator recognized or defaulted before the
   node was parsed, or, for a first node, the inherited operator (and at top
   level, inside a group the operator under which the group was entered);
   also when parsing stopped at a failed term. *)
C17_LastNodeOperator ==
    pc = "done" => LastCarriesLeading(result.parsed, "and")

----------------------------------------------------------------------------
(* a tree without its join operators: per node the expression or, for a
   group, the tree of its sequence *)
RECURSIVE Skeleton(_)
Skeleton(nodes) ==
    [i \in DOMAIN nodes |->
        [expression |-> nodes[i].expression,
         condition  |-> IF nodes[i].condition # <<>>
                        THEN <<Skeleton(nodes[i].condition[1])>>
                        ELSE <<>>]]

(* the sequence levels groups below nodes, going down through last nodes *)
RECURSIVE LastSequence(_, _)
LastSequence(nodes, levels) ==
    IF levels = 0 \/ nodes = <<>> \/ nodes[Len(nodes)].condition = <<>>
    THEN nodes
    ELSE LastSequence(nodes[Len(nodes)].condition[1], levels - 1)

(* the group that was being closed when parse returned: a group at nesting
   level k closes at depth k - 1 *)
UnclosedGroup == LastSequence(result.parsed, result.depth)

(* the nested sequence of the text after the opening parenthesis at the
   cursor, parsed on its own *)
NestedAlone ==
    parseCondition(Slice(Trimmed(input), result.pos + 1),
                   Configure(options, DEFAULT_OPERATOR), NewParser, <<>>, "and",
                   Undefined)

(* C18: when a group's nested sequence has been parsed but no ')' follows,
   the cursor is set back to that group's opening '(' and unparsed starts
   exactly at that character, and the group node with every node appended
   inside it remains in parsed. *)
C18_UnclosedGroupRewinds ==
    (pc = "done" /\ result.caught = "ExpectedClosingParen") =>
        /\ result.pos = result.rule
        /\ result.unparsed = Slice(Trimmed(input), result.pos)
        /\ result.unparsed # <<>> /\ result.unparsed[1] = "("
        /\ UnclosedGroup # <<>>
        /\ UnclosedGroup[Len(UnclosedGroup)].condition # <<>>
        /\ UnclosedGroup[Len(UnclosedGroup)].condition[1] # <<>>
        /\ NestedAlone.err = "none"
        /\ Skeleton(UnclosedGroup[Len(UnclosedGroup)].condition[1]) =
               Skeleton(NestedAlone.out)

C18_Witness ==
    /\ pc = "done" /\ result.caught = "ExpectedClosingParen"
    /\ result.pos = 1 /\ result.depth = 1
    /\ Len(UnclosedGroup) = 1
    /\ Len(UnclosedGroup[1].condition[1]) = 1

----------------------------------------------------------------------------
(* the failures of the grammar rules that name a place to go back to *)
RuleFailures ==
    { "ExpectedColon", "UnterminatedQuote", "UnterminatedParenValue",
      "ParenthesizedOperatorNotAllowed", "ExpectedClosingParen" }

(* C19: for every failure kind (ExpectedColon, UnterminatedQuote,
   UnterminatedParenValue, ParenthesizedOperatorNotAllowed,
   ExpectedClosingParen) the cursor is restored to the first character of the
   expression or group whose parsing failed before the failure propagates, so
   unparsed begins with that whole expression or group. *)
C19_FailureRestoresRuleStart ==
    (pc = "done" /\ result.caught \in RuleFailures) =>
        /\ result.pos = result.rule
        /\ result.unparsed = Slice(Trimmed(input), result.rule)

----------------------------------------------------------------------------
(* every node of the tree, at every depth, has exactly one of expression and
   condition defined *)
RECURSIVE ExactlyOneOf(_)
ExactlyOneOf(nodes) ==
    \A i \in DOMAIN nodes :
        /\ Len(nodes[i].expression) + Len(nodes[i].condition) = 1
        /\ nodes[i].condition # <<>> => ExactlyOneOf(nodes[i].condition[1])

(* C20: every node of the returned tree, at every depth and after success or
   failure, has exactly one of expression and condition defined: a leaf has
   an expression and no condition, a group has a condition sequence and no
   expression. *)
C20_LeafOrGroup ==
    pc = "done" => ExactlyOneOf(result.parsed)

C20_Witness ==
    /\ pc = "done" /\ result.caught # "none"
    /\ Len(result.parsed) = 2
    /\ result.parsed[1].expression # <<>>
    /\ result.parsed[2].condition # <<>>
    /\ Len(result.parsed[2].condition[1]) = 1
    /\ result.parsed[2].condition[1][1].expression # <<>>

----------------------------------------------------------------------------
(* 0-based positions after from where closing stands without a backslash
   immediately before it *)
BareAfter(s, from, closing) ==
    {i \in (from + 1)..(Len(s) - 1) : s[i + 1] = closing /\ s[i] # "\\"}

(* text with every backslash-escaped pair replaced by escaped alone *)
RECURSIVE Unescaped(_, _)
Unescaped(text, escaped) ==
    IF text = <<>> THEN <<>>
    ELSE IF Len(text) >= 2 /\ text[1] = "\\" /\ text[2] = escaped
    THEN <<escaped>> \o Unescaped(SubSeq(text, 3, Len(text)), escaped)
    ELSE <<text[1]>> \o Unescaped(Tail(text), escaped)

(* the text between the opening character at from and the position close *)
Enclosed(s, from, close) == SubSeq(s, from + 2, close)

(* C21: a quoted literal ends at the first occurrence of its opening quote
   character that is not immediately preceded by a backslash; its value is
   the enclosed text with every backslash-quote pair replaced by the quote,
   all other characters kept verbatim; without such a closing quote before
   the end of input the literal fails as unterminated. *)
C21_QuotedLiteral ==
    (pc = "lexed" /\ literal.lexer = "parseQuotedString"
        /\ Peek(input, literal.from) \in {"'", "\""}) =>
        IF BareAfter(input, literal.from, input[literal.from + 1]) = {}
        THEN literal.err = "UnterminatedQuote"
        ELSE /\ literal.err = "none"
             /\ literal.pos = Min(BareAfter(input, literal.from, input[literal.from + 1])) + 1
             /\ literal.val =
                    Unescaped(Enclosed(input, literal.from, literal.pos - 1),
                              input[literal.from + 1])

C21_Witness ==
    /\ pc = "lexed" /\ literal.lexer = "parseQuotedString"
    /\ literal.err = "none" /\ literal.from = 0
    /\ literal.val = <<"\"">>
    /\ literal.pos = 4

----------------------------------------------------------------------------
(* 0-based positions from from on where an unquoted literal ends: a
   whitespace character, a parenthesis, or a colon without a backslash
   immediately before it *)
DelimitersFrom(s, from) ==
    {i \in from..(Len(s) - 1) :
        \/ s[i + 1] \in {"(", ")"} \cup Whitespace
        \/ s[i + 1] = ":" /\ (i = 0 \/ s[i] # "\\")}

(* where the unquoted literal that begins at from ends *)
UnquotedEnd(s, from) ==
    IF DelimitersFrom(s, from) = {} THEN Len(s) ELSE Min(DelimitersFrom(s, from))

(* C22: an unquoted literal extends up to, and does not consume, the first
   unescaped ':', '(', ')' or whitespace character; each backslash-colon pair
   inside it is consumed and contributes a literal ':' to the value. *)
C22_UnquotedLiteral ==
    (pc = "lexed" /\ literal.lexer = "parseUnquotedString") =>
        /\ literal.err = "none"
        /\ literal.pos = UnquotedEnd(input, literal.from)
        /\ literal.val =
               Unescaped(SubSeq(input, literal.from + 1, literal.pos), ":")

C22_Witness ==
    /\ pc = "lexed" /\ literal.lexer = "parseUnquotedString"
    /\ literal.from = 0
    /\ literal.val = <<"a", ":">>
    /\ literal.pos = 3 /\ Len(input) = 4 /\ input[4] = ":"

----------------------------------------------------------------------------
(* parse of key a, a colon and the text lexed, and of key a, operator g, a
   colon and the text lexed *)
AsValue == parse(<<"a", ":">> \o input, DefaultOptions, EQ)

AsOperatorValue == parse(<<"a", ":", "g", ":">> \o input, DefaultOptions, EQ)

(* the first node of parsed is the leaf a, operator, value *)
FirstLeafIs(r, operator, value) ==
    /\ r.parsed # <<>>
    /\ r.parsed[1].expression =
           <<[key |-> <<"a">>, operator |-> operator, value |-> value]>>

NothingParsed(r, failure) == r.caught = failure /\ r.parsed = <<>>

(* C23: a parenthesized literal is accepted in the final value slot of both
   key:(v) and key:op:(v); its value is the text between the opening '(' and
   the first ')' not preceded by a backslash, with every backslash-')' pair
   replaced by ')' and other characters kept verbatim, and the closing ')' is
   consumed; without a bare ')' before the end of input the literal fails as
   unterminated. *)
C23_ParenthesizedLiteral ==
    (pc = "lexed" /\ literal.lexer = "parseParenthesizedValue"
        /\ Peek(input, literal.from) = "(") =>
        IF BareAfter(input, literal.from, ")") = {}
        THEN /\ literal.err = "UnterminatedParenValue"
             /\ literal.from = 0 =>
                    /\ NothingParsed(AsValue, "UnterminatedParenValue")
                    /\ NothingParsed(AsOperatorValue, "UnterminatedParenValue")
        ELSE /\ literal.err = "none"
             /\ literal.pos = Min(BareAfter(input, literal.from, ")")) + 1
             /\ literal.val =
                    Unescaped(Enclosed(input, literal.from, literal.pos - 1), ")")
             /\ literal.from = 0 =>
                    /\ FirstLeafIs(AsOperatorValue, <<"g">>, literal.val)
                    /\ Peek(input, ConsumeWhitespace(input, literal.pos)) # ":" =>
                           FirstLeafIs(AsValue, EQ, literal.val)

C23_Witness ==
    /\ pc = "lexed" /\ literal.lexer = "parseParenthesizedValue"
    /\ literal.err = "none" /\ literal.from = 0
    /\ literal.val = <<")">>
    /\ literal.pos = 4
    /\ FirstLeafIs(AsValue, EQ, <<")">>)

----------------------------------------------------------------------------
(* C24: when a join operator (explicit or implicit) has been written into
   the operator field of the node P that precedes it and the following term
   then fails to parse, P's operator field is restored to the value it had
   before that join operator was written, for a following leaf and for a
   following parenthesized group. *)
C24_PrecedingOperatorRestored ==
    pc = "done" =>
        \A k \in DOMAIN result.pending :
            /\ Len(LastSequence(result.parsed, result.pending[k].level))
                   >= result.pending[k].at
            /\ LastSequence(result.parsed, result.pending[k].level)
                   [result.pending[k].at].operator = result.pending[k].before

----------------------------------------------------------------------------
(* every group of the tree, at every depth, holds at least one node *)
RECURSIVE NoEmptyGroup(_)
NoEmptyGroup(nodes) ==
    \A i \in DOMAIN nodes :
        nodes[i].condition # <<>> =>
            /\ nodes[i].condition[1] # <<>>
            /\ NoEmptyGroup(nodes[i].condition[1])

(* C25: every group node in the returned tree, after success or failure, has
   a condition sequence that contains at least one node. *)
C25_GroupsNotEmpty ==
    pc = "done" => NoEmptyGroup(result.parsed)

----------------------------------------------------------------------------
(* the call on the input before the rule at work began, same options *)
BeforeRule ==
    parse(SubSeq(Trimmed(input), 1, result.rule), options, DEFAULT_OPERATOR)

(* the text the cursor passed since the rule at work began, parsed without
   callbacks *)
RuleText ==
    parse(SubSeq(Trimmed(input), result.rule + 1, result.pos), DefaultOptions,
          DEFAULT_OPERATOR)

(* the cursor does not stand inside a token *)
AtTokenBoundary(t, pos) ==
    \/ pos = Len(t)
    \/ t[pos + 1] \in {":", "(", ")"} \cup Whitespace
    \/ pos > 0 /\ t[pos] \in Whitespace

(* C26: if the transform or preAddHook callback throws while a leaf is being
   processed, the exception does not reach the caller of parse: parse returns
   normally, that leaf is neither appended to parsed nor recorded in meta,
   every node committed before it is kept, and unparsed is the input from the
   cursor position reached after the leaf's text. *)
C26_CallbackThrows ==
    (pc = "done"
        /\ (result.caught = "CallbackThrew" \/ result.thrown = "CallbackThrew")) =>
        /\ result.thrown = "none"
        /\ result.parsed = BeforeRule.parsed
        /\ result.meta = BeforeRule.meta
        /\ result.unparsed = Slice(Trimmed(input), result.pos)
        /\ result.pos > result.rule
        /\ AtTokenBoundary(Trimmed(input), result.pos)
        /\ RuleText.caught = "none"
        /\ Len(RuleText.parsed) = 1
        /\ RuleText.parsed[1].expression # <<>>
        /\ \/ Throws(options.transform, RuleText.parsed[1].expression[1])
           \/ Throws(options.preAddHook, RuleText.parsed[1].expression[1])

C26_Witness ==
    /\ pc = "done" /\ result.caught = "CallbackThrew"
    /\ options.preAddHook = "throwsOnKeyB"
    /\ Len(result.parsed) = 1
    /\ Len(result.meta.expressions) = 1
    /\ result.unparsed = <<"a", ":", "b">>

----------------------------------------------------------------------------
(* the progress of a parse: every term parsed without failure moved the
   cursor forward inside the input, and the loop of the term sequence went on
   at most once per character *)
TermsAdvance ==
    /\ \A k \in DOMAIN result.terms :
           /\ result.terms[k].from >= 0
           /\ result.terms[k].to > result.terms[k].from
           /\ result.terms[k].to <= Len(Trimmed(input))
    /\ Len(result.terms) <= Len(Trimmed(input))
    /\ Len(result.edges) <= Len(Trimmed(input))

(* C27: parse terminates for every finite input: each term that is parsed
   successfully (leaf or group) advances the cursor by at least one
   character, so the loop of the term sequence runs a bounded number of
   times before it ends or a failure is raised. *)
C27_Terminates ==
    /\ pc \in {"idle", "done"}
    /\ pc = "done" => TermsAdvance

C27_Witness ==
    /\ pc = "done" /\ result.unparsed = <<>>
    /\ Len(input) = 5
    /\ result.terms = <<[from |-> 1, to |-> 4], [from |-> 0, to |-> 5]>>

----------------------------------------------------------------------------
(* C28: at every step of a parse the cursor position satisfies
   0 <= position <= input length, including after the keyword skips of the
   join-operator parser (and, or, and the following not) and after every
   rewind. *)
C28_CursorInBounds ==
    pc = "done" =>
        /\ 0 <= result.lo /\ result.lo <= result.pos
        /\ result.pos <= result.hi /\ result.hi <= Len(Trimmed(input))
        /\ \A k \in DOMAIN result.joins :
               /\ 0 <= result.joins[k].at
               /\ result.joins[k].at < result.joins[k].pos
               /\ result.joins[k].pos <= Len(Trimmed(input))

C28_Witness ==
    /\ pc = "done" /\ result.caught = "ExpectedColon"
    /\ Len(result.joins) = 1 /\ result.joins[1].op = "andNot"
    /\ result.joins[1].pos = Len(Trimmed(input)) - 1
    /\ result.hi = Len(Trimmed(input)) /\ result.pos < result.hi

----------------------------------------------------------------------------
Greatest(S) == CHOOSE i \in S : \A k \in S : i >= k

(* the deepest nesting of groups in a tree *)
RECURSIVE Nesting(_)
Nesting(nodes) ==
    IF \A i \in DOMAIN nodes : nodes[i].condition = <<>>
    THEN 0
    ELSE 1 + Greatest({Nesting(nodes[i].condition[1]) :
                          i \in {j \in DOMAIN nodes : nodes[j].condition # <<>>}})

(* how many opening parentheses the text has *)
OpeningParentheses(t) == Cardinality({i \in DOMAIN t : t[i] = "("})

(* C30: the number of nested #parseCondition invocations active at any
   moment of a parse never exceeds one plus the deepest nesting of
   group-opening parentheses in the input, and therefore never exceeds the
   input length plus one. *)
C30_RecursionDepth ==
    pc = "done" =>
        /\ result.active >= 1
        /\ result.active <= 1 + Nesting(result.parsed)
        /\ result.active <= 1 + OpeningParentheses(Trimmed(input))
        /\ result.active <= 1 + Len(Trimmed(input))
        /\ result.depth + 1 <= result.active

C30_Witness ==
    /\ pc = "done"
    /\ Len(result.parsed) = 1
    /\ result.active = 3
    /\ Nesting(result.parsed) = 2
    /\ Len(LeavesOf(result.parsed)) = 2

----------------------------------------------------------------------------
(* the same outer call with a transform that calls nothing, and the inner
   call made on its own *)
OuterAlone ==
    Returned(parse(input, [options EXCEPT !.transform = "absent"], DEFAULT_OPERATOR))

InnerAlone == Returned(parse(InnerInput, InnerOptions, DEFAULT_OPERATOR))

(* the outer call returned what it returns alone, and so did every inner
   call, one per leaf handed to the transform *)
EachCallAsAlone ==
    (pc = "done" /\ options.transform = "reenters") =>
        /\ Returned(result) = OuterAlone
        /\ Len(result.nested) = Len(LeavesOf(result.parsed))
        /\ \A k \in DOMAIN result.nested : result.nested[k] = InnerAlone

(* C29: all cursor, depth and accumulator state belongs to one parse call: a
   parse call that starts while another is in progress (from inside a
   transform callback), with a different input and different options, does
   not change the outer call's cursor, tree or metadata, and each call
   returns the result it would return if run alone; parse never writes the
   static DEFAULT_OPERATOR. *)
C29_CallsAreIndependent ==
    /\ []EachCallAsAlone
    /\ [][pc' = "done" => DEFAULT_OPERATOR' = DEFAULT_OPERATOR]_vars

C29_Witness ==
    /\ pc = "done" /\ options.transform = "reenters"
    /\ DEFAULT_OPERATOR = GT
    /\ Len(result.nested) = 2
    /\ result.nested[2].unparsed # <<>>
    /\ Len(result.nested[2].meta.expressions) = 1
    /\ result.unparsed # <<>>
    /\ Len(result.meta.keys) = 2

====
